---- MODULE Spec2Model ----
(***************************************************************************)
(* A model of src/ode_solver.py: class Solver, its six integration methods *)
(* (euler, runge2nd, heun, ralston, midpoint, classic4th) and compare.     *)
(*                                                                         *)
(* Numbers.  The program computes in IEEE doubles.  The model computes in  *)
(* exact rationals <<numerator, denominator>> (denominator > 0, lowest     *)
(* terms).  The configurations the model draws (integer x0, y0, final_x    *)
(* and h) make every quotient the sample count depends on exact, so the    *)
(* model and the program agree on lengths and on X; Y is the real-number   *)
(* value the floating-point Y approximates.                                *)
(*                                                                         *)
(* Labels.  A label given to compare is a string; the model keeps it as    *)
(* the sequence of its lexical pieces, <<"runge2nd", "(", "3/4", ")">> for *)
(* 'runge2nd(3/4)', so that split('(') and eval act on its text.           *)
(***************************************************************************)
EXTENDS Integers, Sequences, FiniteSets

VARIABLES self, lastCall, ret, fcalls, first, cargs, cmp, plotted, shown

vars == <<self, lastCall, ret, fcalls, first, cargs, cmp, plotted, shown>>

\* ------------------------------------------------------------------ bounds
\* x0 and final_x range over 0..MaxX, h over -MaxH..MaxH (0 included: the
\* constructor validates nothing), compare takes at most MaxArgs labels.
MaxX == 3
MaxH == 3
MaxArgs == 2

\* --------------------------------------------------------------- rationals
RECURSIVE GCD(_, _)
GCD(a, b) == IF b = 0 THEN a ELSE GCD(b, a % b)

Abs(n) == IF n < 0 THEN -n ELSE n

\* n/d in lowest terms, d > 0
Norm(n, d) == LET g == GCD(Abs(n), d) IN <<n \div g, d \div g>>

Num(k) == <<k, 1>>
Zero == Num(0)
One == Num(1)
Two == Num(2)
Half == Norm(1, 2)

RNeg(a) == <<-a[1], a[2]>>
RAbs(a) == <<Abs(a[1]), a[2]>>
RAdd(a, b) ==
    LET g == GCD(a[2], b[2])
        l == (a[2] \div g) * b[2]
    IN  Norm(a[1] * (l \div a[2]) + b[1] * (l \div b[2]), l)
RSub(a, b) == RAdd(a, RNeg(b))
RMul(a, b) ==
    LET g1 == GCD(Abs(a[1]), b[2])
        g2 == GCD(Abs(b[1]), a[2])
    IN  Norm((a[1] \div g1) * (b[1] \div g2), (a[2] \div g2) * (b[2] \div g1))
\* b # Zero
RInv(b) == IF b[1] > 0 THEN <<b[2], b[1]>> ELSE <<-b[2], -b[1]>>
RDiv(a, b) == RMul(a, RInv(b))
RLess(a, b) == a[1] * b[2] < b[1] * a[2]
RLeq(a, b) == a[1] * b[2] <= b[1] * a[2]

\* Python's int() of a float: truncation toward zero
PyInt(a) == IF a[1] >= 0 THEN a[1] \div a[2] ELSE -((-a[1]) \div a[2])

\* Python's round() of a float: to the nearest integer, ties to even
PyRound(a) ==
    LET fl == a[1] \div a[2]
        twice == 2 * (a[1] - fl * a[2])
    IN  IF twice < a[2] THEN fl
        ELSE IF twice > a[2] THEN fl + 1
        ELSE IF fl % 2 = 0 THEN fl ELSE fl + 1

\* ------------------------------------------------ the derivative functions
\* self.f is supplied by the caller; the model draws it from three pure
\* functions of (x, y): f(x,y) = y, f(x,y) = x*x and f(x,y) = x - y.
Functions == {"y", "x*x", "x-y"}

f(fn, x, y) ==
    CASE fn = "y" -> y
      [] fn = "x*x" -> RMul(x, x)
      [] fn = "x-y" -> RSub(x, y)

\* ------------------------------------------------------------- the Solver
\* Solver.__init__: the four fields, stored as given
Solver(function, boundary, final_x, step_size) ==
    [f |-> function, boundary |-> boundary, h |-> step_size, final_x |-> final_x]

\* linspace as it would be with endpoint = False: the stop is not a sample
linspace_noend(start, stop, num) ==
    LET step == RDiv(RSub(stop, start), Num(num))
    IN  [i \in 1..num |-> RAdd(start, RMul(Num(i - 1), step))]

\* numpy.linspace(start, stop, num): num evenly spaced samples, the last
\* one set to stop when num > 1; <<start>> when num = 1
linspace(start, stop, num) ==
    IF num <= 1 THEN [i \in 1..num |-> start]
    ELSE LET step == RDiv(RSub(stop, start), Num(num - 1))
         IN  [i \in 1..num |->
                IF i = num THEN stop ELSE RAdd(start, RMul(Num(i - 1), step))]

\* the sample count as it would be with round() in place of int()
NumSamples_round(s) ==
    PyRound(RAbs(RDiv(RSub(s.final_x, s.boundary[1]), s.h))) + 1

\* int(np.abs((self.final_x - self.boundary[0])/self.h) + 1), h # 0
NumSamples(s) ==
    PyInt(RAdd(RAbs(RDiv(RSub(s.final_x, s.boundary[1]), s.h)), One))

\* y started from the wrong component of the boundary
InitY_x0(s) == <<s.boundary[1]>>

\* y = np.empty(len(x)); y[0] = self.boundary[1]: the filled prefix of y
InitY(s) == <<s.boundary[2]>>

\* What a method call yields: its outcome, the returned pair, the number of
\* times it invoked self.f, and the object's fields when it ends.
Returned(x, y, calls, s) ==
    [status |-> "ok", X |-> x, Y |-> y, calls |-> calls, self |-> s]
Raised(error, calls, s) ==
    [status |-> error, X |-> <<>>, Y |-> <<>>, calls |-> calls, self |-> s]

\* for i in range(1, len(x)): y[i] = y[i-1] + self.f(x[i-1], y[i-1]) * self.h
\* (y holds y[0..i-1]; sequences are 1-based, so y[i-1] is y[Len(y)])
RECURSIVE eulerLoop(_, _, _)
eulerLoop(s, x, y) ==
    IF Len(y) >= Len(x) THEN y
    ELSE LET i == Len(y)
         IN  eulerLoop(s, x,
                Append(y, RAdd(y[i], RMul(f(s.f, x[i], y[i]), s.h))))

\* euler as it would be if it kept the point it reached as the boundary
euler_moves(s) ==
    IF s.h = Zero THEN Raised("ZeroDivisionError", 0, s)
    ELSE LET x == linspace(s.boundary[1], s.final_x, NumSamples(s))
             y == eulerLoop(s, x, InitY(s))
         IN  Returned(x, y, Len(x) - 1,
                      [s EXCEPT !.boundary = <<x[Len(x)], y[Len(y)]>>])

\* Solver.euler: the division by self.h on line 52 raises when h = 0; the
\* loop calls self.f once a step
euler(s) ==
    IF s.h = Zero THEN Raised("ZeroDivisionError", 0, s)
    ELSE LET x == linspace(s.boundary[1], s.final_x, NumSamples(s))
         IN  Returned(x, eulerLoop(s, x, InitY(s)), Len(x) - 1, s)

\* the loop of runge2nd, lines 68-70
RECURSIVE runge2ndLoop(_, _, _, _, _, _, _)
runge2ndLoop(s, a1, a2, p, q, x, y) ==
    IF Len(y) >= Len(x) THEN y
    ELSE LET i == Len(y)
             k1 == f(s.f, x[i], y[i])
             k2 == f(s.f, RAdd(x[i], RMul(p, s.h)),
                          RAdd(y[i], RMul(RMul(q, k1), s.h)))
         IN  runge2ndLoop(s, a1, a2, p, q, x,
                Append(y, RAdd(y[i],
                    RMul(RAdd(RMul(a1, k1), RMul(a2, k2)), s.h))))

\* runge2nd as it would be if a2 = 0 were let through with p = q = 0
runge2nd_swallow(s, a2) ==
    IF s.h = Zero THEN Raised("ZeroDivisionError", 0, s)
    ELSE LET a1 == RSub(One, a2)
             p == IF a2 = Zero THEN Zero ELSE RDiv(One, RMul(Two, a2))
             x == linspace(s.boundary[1], s.final_x, NumSamples(s))
         IN  Returned(x, runge2ndLoop(s, a1, a2, p, p, x, InitY(s)),
                      3 * (Len(x) - 1), s)

\* Solver.runge2nd: p = 1/(2*a2) on line 61 raises when a2 = 0, before
\* line 64 divides by self.h
runge2nd(s, a2) ==
    IF a2 = Zero THEN Raised("ZeroDivisionError", 0, s)
    ELSE IF s.h = Zero THEN Raised("ZeroDivisionError", 0, s)
    ELSE LET a1 == RSub(One, a2)
             p == RDiv(One, RMul(Two, a2))
             q == p
             x == linspace(s.boundary[1], s.final_x, NumSamples(s))
         IN  Returned(x, runge2ndLoop(s, a1, a2, p, q, x, InitY(s)),
                      3 * (Len(x) - 1), s)

\* heun as it would be with the coefficient of midpoint
heun_mid(s) == runge2nd(s, One)

\* Solver.heun, Solver.ralston, Solver.midpoint
heun(s) == runge2nd(s, Half)

ralston(s) == runge2nd(s, Norm(2, 3))

midpoint(s) == runge2nd(s, One)

\* the loop of classic4th, lines 87-92
RECURSIVE classic4thLoop(_, _, _)
classic4thLoop(s, x, y) ==
    IF Len(y) >= Len(x) THEN y
    ELSE LET i == Len(y)
             h2 == RDiv(s.h, Two)
             k1 == f(s.f, x[i], y[i])
             k2 == f(s.f, RAdd(x[i], h2), RAdd(y[i], RDiv(RMul(k1, s.h), Two)))
             k3 == f(s.f, RAdd(x[i], h2), RAdd(y[i], RDiv(RMul(k2, s.h), Two)))
             k4 == f(s.f, RAdd(x[i], s.h), RAdd(y[i], RMul(k3, s.h)))
             sum == RAdd(RAdd(k1, RMul(Two, k2)), RAdd(RMul(Two, k3), k4))
         IN  classic4thLoop(s, x,
                Append(y, RAdd(y[i], RMul(RMul(Norm(1, 6), sum), s.h))))

\* Solver.classic4th: line 83 divides by self.h; the loop calls self.f four
\* times a step
classic4th(s) ==
    IF s.h = Zero THEN Raised("ZeroDivisionError", 0, s)
    ELSE LET x == linspace(s.boundary[1], s.final_x, NumSamples(s))
         IN  Returned(x, classic4thLoop(s, x, InitY(s)), 4 * (Len(x) - 1), s)

\* -------------------------------------------------------- the state machine
NoArg == <<>>
NoCall == [op |-> "none", arg |-> NoArg]
NoRet == [status |-> "none", X |-> <<>>, Y |-> <<>>]
NoCmp == [status |-> "none", label |-> <<>>, returned |-> FALSE,
          results |-> <<>>, invoked |-> <<>>]
NoFirst == [call |-> NoCall, ret |-> NoRet, self |-> <<>>, others |-> FALSE]

\* the coefficients runge2nd is called with
A2Values == {Zero, Half, Norm(2, 3), Norm(3, 4), One}

Configs ==
    {Solver(fn, <<Num(x0), Num(y0)>>, Num(xf), Num(h)) :
        fn \in Functions, x0 \in 0..MaxX, y0 \in {1, 2},
        xf \in 0..MaxX, h \in -MaxH..MaxH}

Init ==
    /\ self \in Configs
    /\ lastCall = NoCall
    /\ ret = NoRet
    /\ fcalls = 0
    /\ first = NoFirst
    /\ cargs = <<>>
    /\ cmp = NoCmp
    /\ plotted = <<>>
    /\ shown = FALSE

\* One call of an integration method on the object: r is what the method
\* yields on the current fields.  first keeps the first call made on the
\* object, what it returned, the fields it found, and whether a different
\* call has been made since.
Call(op, arg, r) ==
    /\ lastCall' = [op |-> op, arg |-> arg]
    /\ ret' = [status |-> r.status, X |-> r.X, Y |-> r.Y]
    /\ fcalls' = r.calls
    /\ self' = r.self
    /\ first' = IF first = NoFirst
                  THEN [call |-> [op |-> op, arg |-> arg],
                        ret |-> [status |-> r.status, X |-> r.X, Y |-> r.Y],
                        self |-> self, others |-> FALSE]
                  ELSE [first EXCEPT
                          !.others = @ \/ first.call # [op |-> op, arg |-> arg]]
    /\ UNCHANGED <<cargs, cmp, plotted, shown>>

Euler == Call("euler", NoArg, euler(self))
Runge2nd == \E a2 \in A2Values : Call("runge2nd", a2, runge2nd(self, a2))
Heun == Call("heun", NoArg, heun(self))
Ralston == Call("ralston", NoArg, ralston(self))
Midpoint == Call("midpoint", NoArg, midpoint(self))
Classic4th == Call("classic4th", NoArg, classic4th(self))

Next == Euler \/ Runge2nd \/ Heun \/ Ralston \/ Midpoint \/ Classic4th

Spec == Init /\ [][Next]_vars

\* ------------------------------------------------------------------ compare
\* The methods of the class that integrate, and the instance's fields.
Operations == {"euler", "runge2nd", "heun", "ralston", "midpoint", "classic4th"}
Fields == {"f", "boundary", "h", "final_x"}

\* dir(self): the instance's fields, the class's methods and the names every
\* object has (of which the model keeps three)
Dir == Fields \cup Operations \cup {"compare", "__init__", "__class__", "__doc__"}

\* i.split('(')[0]: the text of the label before its first '('
RECURSIVE split0(_)
split0(label) ==
    IF label = <<>> \/ Head(label) = "(" THEN <<>>
    ELSE <<Head(label)>> \o split0(Tail(label))

\* the names n for which "n in dir(self)" holds, as texts
InDir(text) == \E n \in Dir : text = <<n>>

\* the value of a numeric literal
Literal(tok) ==
    CASE tok = "0" -> Zero
      [] tok = "1/2" -> Half
      [] tok = "2/3" -> Norm(2, 3)
      [] tok = "3/4" -> Norm(3, 4)
      [] tok = "1" -> One
Literals == {"0", "1/2", "2/3", "3/4", "1"}

\* What eval yields: an outcome, the value (its Python type in kind), the
\* integration operation it entered ("" when none), the calls of self.f and
\* the object's fields afterwards.
Value(kind, x, y) == [kind |-> kind, X |-> x, Y |-> y]
NoValue == Value("none", <<>>, <<>>)
Evaluated(v, s) ==
    [status |-> "ok", value |-> v, op |-> "", calls |-> 0, self |-> s]
EvalRaised(error, s) ==
    [status |-> error, value |-> NoValue, op |-> "", calls |-> 0, self |-> s]
Invoked(op, r) ==
    [status |-> r.status,
     value |-> IF r.status = "ok" THEN Value("tuple", r.X, r.Y) ELSE NoValue,
     op |-> op, calls |-> r.calls, self |-> r.self]

\* self.<name>: the attribute's value
getattr(s, name) ==
    CASE name = "boundary" -> Evaluated(Value("list", s.boundary, <<>>), s)
      [] name \in {"h", "final_x"} -> Evaluated(Value("number", <<s[name]>>, <<>>), s)
      [] name = "f" -> Evaluated(Value("function", <<>>, <<>>), s)
      [] name \in Operations \cup {"compare", "__init__"} ->
            Evaluated(Value("method", <<>>, <<>>), s)
      [] name \in Dir \ (Fields \cup Operations \cup {"compare", "__init__"}) ->
            Evaluated(Value("object", <<>>, <<>>), s)
      [] OTHER -> EvalRaised("AttributeError", s)

\* self.<name>(): a call with no argument (compare() with no label returns
\* an empty dict)
call0(s, name) ==
    CASE name = "euler" -> Invoked(name, euler(s))
      [] name = "heun" -> Invoked(name, heun(s))
      [] name = "ralston" -> Invoked(name, ralston(s))
      [] name = "midpoint" -> Invoked(name, midpoint(s))
      [] name = "classic4th" -> Invoked(name, classic4th(s))
      [] name = "compare" -> Evaluated(Value("dict", <<>>, <<>>), s)
      [] name \in Dir \ {"euler", "heun", "ralston", "midpoint", "classic4th",
                         "compare"} ->
            EvalRaised("TypeError", s)
      [] OTHER -> EvalRaised("AttributeError", s)

\* self.<name>(<literal>): a call with one argument (compare(<number>)
\* fails on the number's missing split)
call1(s, name, arg) ==
    CASE name = "runge2nd" -> Invoked(name, runge2nd(s, arg))
      [] name = "compare" -> EvalRaised("AttributeError", s)
      [] name \in Dir \ {"runge2nd", "compare"} -> EvalRaised("TypeError", s)
      [] OTHER -> EvalRaised("AttributeError", s)

\* eval('self.' + i) for the label shapes name, name() and name(literal)
evalSelf(s, label) ==
    CASE Len(label) = 1 -> getattr(s, label[1])
      [] Len(label) = 3 /\ label[2] = "(" /\ label[3] = ")" -> call0(s, label[1])
      [] Len(label) = 4 /\ label[2] = "(" /\ label[3] \in Literals /\ label[4] = ")" ->
            call1(s, label[1], Literal(label[3]))
      [] OTHER -> EvalRaised("SyntaxError", s)

\* plt.plot(*result, label = i) unpacks result: it must be iterable
Iterable == {"tuple", "list", "dict"}

\* a list of pairs appended to, in place of a dict
DictSet_append(d, k, v) == Append(d, <<k, v>>)

\* results[i] = result on a dict: a new key goes last, a key already there
\* keeps its place and takes the new value
DictSet(d, k, v) ==
    IF \E j \in 1..Len(d) : d[j][1] = k
    THEN [j \in 1..Len(d) |-> IF d[j][1] = k THEN <<k, v>> ELSE d[j]]
    ELSE Append(d, <<k, v>>)

\* The outcome of compare: status "ok" with the mapping returned, or the
\* exception that left it (label: the label it was raised for).
CompareOut(status, label, returned, st) ==
    [status |-> status, label |-> label, returned |-> returned,
     results |-> IF returned THEN st.results ELSE <<>>,
     invoked |-> st.invoked, plotted |-> st.plotted,
     shown |-> returned, self |-> st.self]

\* the validation as it would be if it looked at the first label only
validate_first(args, k) ==
    IF Len(args) >= 1 /\ ~InDir(split0(args[1])) THEN 1 ELSE 0

\* lines 97-99: the first label whose name is not in dir(self), or 0
RECURSIVE validate(_, _)
validate(args, k) ==
    IF k > Len(args) THEN 0
    ELSE IF ~InDir(split0(args[k])) THEN k
    ELSE validate(args, k + 1)

\* the object and the operations entered once eval('self.' + i) has run
entered(st, result) ==
    [st EXCEPT !.self = result.self,
               !.invoked = IF result.op = "" THEN @ ELSE Append(@, result.op)]

\* lines 102-104 for the label i = args[k], result being eval('self.' + i)
\* and st the state after it, then the rest of the loop
RECURSIVE compareLoop(_, _, _)
compareStep(st, args, k, result) ==
    IF result.status # "ok"
      THEN CompareOut(result.status, args[k], FALSE, st)
    ELSE IF result.value.kind \notin Iterable
      THEN CompareOut("TypeError", args[k], FALSE, st)
    ELSE compareLoop(
            [st EXCEPT !.plotted = Append(@, <<args[k], result.value>>),
                       !.results = DictSet(@, args[k], result.value)],
            args, k + 1)

compareEval(st, args, k, result) ==
    compareStep(entered(st, result), args, k, result)

\* lines 101-104, from label k on
compareLoop(st, args, k) ==
    IF k > Len(args) THEN CompareOut("ok", <<>>, TRUE, st)
    ELSE compareEval(st, args, k, evalSelf(st.self, args[k]))

compare(s, args) ==
    LET st0 == [self |-> s, results |-> <<>>, invoked |-> <<>>, plotted |-> <<>>]
        bad == validate(args, 1)
    IN  IF bad # 0 THEN CompareOut("Exception", args[bad], FALSE, st0)
        ELSE compareLoop(st0, args, 1)

\* The labels the model passes to compare.
Labels ==
    {<<"euler">>, <<"classic4th">>, <<"h">>, <<"f">>, <<"boundary">>,
     <<"final_x">>, <<"__init__">>, <<"bogus_method">>,
     <<"euler", "(", ")">>, <<"heun", "(", ")">>, <<"ralston", "(", ")">>,
     <<"midpoint", "(", ")">>, <<"classic4th", "(", ")">>,
     <<"runge2nd", "(", ")">>, <<"runge2nd", "(", "0", ")">>,
     <<"runge2nd", "(", "1/2", ")">>, <<"runge2nd", "(", "3/4", ")">>,
     <<"bogus_method", "(", ")">>}

CompareConfigs ==
    {c \in Configs : /\ c.f = "x*x"
                     /\ c.boundary = <<Zero, One>>
                     /\ c.h \in {One, Two}}

InitCompare ==
    /\ self \in CompareConfigs
    /\ lastCall = NoCall
    /\ ret = NoRet
    /\ fcalls = 0
    /\ first = NoFirst
    /\ cargs = <<>>
    /\ cmp = NoCmp
    /\ plotted = <<>>
    /\ shown = FALSE

\* The caller writes the next argument of its coming call of compare (the
\* first one starts a new call: what the last call left is forgotten).
Arg ==
    \E label \in Labels :
        /\ cmp # NoCmp \/ Len(cargs) < MaxArgs
        /\ cargs' = IF cmp = NoCmp THEN Append(cargs, label) ELSE <<label>>
        /\ cmp' = NoCmp
        /\ plotted' = <<>>
        /\ shown' = FALSE
        /\ UNCHANGED <<self, lastCall, ret, fcalls, first>>

\* compare ends with outcome out; plotted and shown are what it sent to plt
Outcome(out) ==
    /\ cmp' = [status |-> out.status, label |-> out.label,
               returned |-> out.returned, results |-> out.results,
               invoked |-> out.invoked]
    /\ plotted' = out.plotted
    /\ shown' = out.shown
    /\ self' = out.self

\* The call compare(*cargs)
Compare ==
    /\ cmp = NoCmp
    /\ Outcome(compare(self, cargs))
    /\ lastCall' = [op |-> "compare", arg |-> NoArg]
    /\ UNCHANGED <<cargs, ret, fcalls, first>>

NextCompare == Arg \/ Compare

SpecCompare == InitCompare /\ [][NextCompare]_vars

\* ---------------------------------------------------------------- properties
x0 == self.boundary[1]
y0 == self.boundary[2]
\* |final_x - x0| / |h|, for h # 0
Ratio == RAbs(RDiv(RSub(self.final_x, x0), self.h))
\* the last call was of an integration method, with h # 0 and a2 # 0
ValidCall ==
    /\ lastCall.op \in Operations
    /\ self.h # Zero
    /\ ~(lastCall.op = "runge2nd" /\ lastCall.arg = Zero)
Pair(r) == <<r.X, r.Y>>

\* C1 (as claimed): every method returns X and Y of the same length n, and
\* n = round(|final_x - x0| / |h|) + 1.
C1_LengthIsRoundPlusOne ==
    ValidCall =>
        /\ ret.status = "ok"
        /\ Len(ret.X) = Len(ret.Y)
        /\ Len(ret.X) = PyRound(Ratio) + 1

\* C1 (amended): every method returns X and Y of the same length n, and n
\* is the quotient |final_x - x0| / |h| truncated, plus one: n - 1 is the
\* largest integer not above the quotient.
C1_LengthIsTruncPlusOne ==
    ValidCall =>
        /\ ret.status = "ok"
        /\ Len(ret.X) = Len(ret.Y)
        /\ RLeq(Num(Len(ret.X) - 1), Ratio)
        /\ RLess(Ratio, Num(Len(ret.X)))

\* a method returned on a configuration whose quotient has a fraction of a
\* half or more, where rounding and truncating differ
C1_Witness ==
    /\ ValidCall
    /\ ret.status = "ok"
    /\ Len(ret.X) >= 2
    /\ RLeq(Half, RSub(Ratio, Num(Len(ret.X) - 1)))

\* C2 (as claimed): in euler(), Y[i] = Y[i-1] + f(X[i-1], Y[i-1]) * step
\* where step is the spacing X[i] - X[i-1] of the returned X.
C2_EulerStepIsSpacing ==
    (lastCall.op = "euler" /\ ret.status = "ok") =>
        \A i \in 2..Len(ret.Y) :
            ret.Y[i] = RAdd(ret.Y[i - 1],
                            RMul(f(self.f, ret.X[i - 1], ret.Y[i - 1]),
                                 RSub(ret.X[i], ret.X[i - 1])))

C6_Runge2ndZeroRaises ==
    (lastCall.op = "runge2nd" /\ lastCall.arg = Zero) =>
        /\ ret.status = "ZeroDivisionError"
        /\ ret.X = <<>>
        /\ ret.Y = <<>>
        /\ fcalls = 0

\* runge2nd(0) was called on a configuration where any other coefficient
\* takes steps
C6_Witness ==
    /\ lastCall.op = "runge2nd"
    /\ lastCall.arg = Zero
    /\ ret.status = "ZeroDivisionError"
    /\ self.h # Zero
    /\ Len(runge2nd(self, One).X) >= 2

\* C7: heun() returns what runge2nd(1/2) returns, ralston() what
\* runge2nd(2/3) returns and midpoint() what runge2nd(1) returns.
C7_WrappersAreRunge2nd ==
    /\ lastCall.op = "heun" =>
          /\ ret.status = runge2nd(self, Norm(1, 2)).status
          /\ Pair(ret) = Pair(runge2nd(self, Norm(1, 2)))
    /\ lastCall.op = "ralston" =>
          /\ ret.status = runge2nd(self, Norm(2, 3)).status
          /\ Pair(ret) = Pair(runge2nd(self, Norm(2, 3)))
    /\ lastCall.op = "midpoint" =>
          /\ ret.status = runge2nd(self, Norm(1, 1)).status
          /\ Pair(ret) = Pair(runge2nd(self, Norm(1, 1)))

\* heun() returned on a configuration where the coefficient matters
C7_Witness ==
    /\ lastCall.op = "heun"
    /\ ret.status = "ok"
    /\ Len(ret.Y) >= 2
    /\ ret.Y # runge2nd(self, Norm(1, 1)).Y
    /\ ret.Y # runge2nd(self, Norm(2, 3)).Y

\* C8: for every method and every configuration with h # 0, the returned Y
\* is non-empty and Y[0] = y0.
C8_YStartsAtBoundary ==
    ValidCall =>
        /\ ret.status = "ok"
        /\ Len(ret.Y) >= 1
        /\ ret.Y[1] = y0

\* a method returned for an h of the wrong sign that is also larger than
\* the interval
C8_Witness ==
    /\ ValidCall
    /\ ret.status = "ok"
    /\ RLess(x0, self.final_x)
    /\ RLess(self.h, Zero)
    /\ RLess(RSub(self.final_x, x0), RAbs(self.h))
    /\ y0 # x0

\* C9: after any calls of the methods the configuration is unchanged, and a
\* method called again with the same argument returns what it returned on
\* its first call, whatever was called in between.
C9_CallsLeaveNoTrace ==
    first # NoFirst =>
        /\ self = first.self
        /\ lastCall = first.call => ret = first.ret

\* the first call was repeated after a different call, and returned steps
C9_Witness ==
    /\ first # NoFirst
    /\ first.others
    /\ lastCall = first.call
    /\ ret.status = "ok"
    /\ Len(ret.Y) >= 3

\* ------------------------------------------------------ properties, compare
\* name or name(): an integration operation that takes no argument
Nullary == Operations \ {"runge2nd"}
BareForm(label) == Len(label) = 1 /\ label[1] \in Nullary
CallForm(label) ==
    \/ Len(label) = 3 /\ label[1] \in Nullary /\ label[2] = "(" /\ label[3] = ")"
    \/ /\ Len(label) = 4
       /\ label[1] = "runge2nd"
       /\ label[2] = "("
       /\ label[3] \in Literals
       /\ label[4] = ")"

\* what the operation a label names returns when called on the object itself
Standalone(label) ==
    CASE label[1] = "euler" -> euler(self)
      [] label[1] = "heun" -> heun(self)
      [] label[1] = "ralston" -> ralston(self)
      [] label[1] = "midpoint" -> midpoint(self)
      [] label[1] = "classic4th" -> classic4th(self)
      [] label[1] = "runge2nd" -> runge2nd(self, Literal(label[3]))

\* the labels of a sequence, each once, in the order of first occurrence
RECURSIVE Distinct(_)
Distinct(seq) ==
    IF seq = <<>> THEN <<>>
    ELSE LET front == Distinct(SubSeq(seq, 1, Len(seq) - 1))
             last == seq[Len(seq)]
         IN  IF \E j \in 1..Len(front) : front[j] = last THEN front
             ELSE Append(front, last)

\* compare returned a mapping whose keys are the labels in argument order,
\* each with the pair its operation returns standalone
MatchesStandalone ==
    /\ cmp.status = "ok"
    /\ cmp.returned
    /\ [j \in 1..Len(cmp.results) |-> cmp.results[j][1]] = Distinct(cargs)
    /\ \A j \in 1..Len(cmp.results) :
          /\ cmp.results[j][2].kind = "tuple"
          /\ <<cmp.results[j][2].X, cmp.results[j][2].Y>> =
                Pair(Standalone(cmp.results[j][1]))

\* C3 (as claimed): for labels that each name an integration operation, in
\* bare form or in call form, compare returns the mapping from the labels,
\* in argument order, to what each operation returns standalone.
C3_AnyFormMatchesStandalone ==
    (/\ cmp # NoCmp
     /\ \A k \in 1..Len(cargs) :
           /\ BareForm(cargs[k]) \/ CallForm(cargs[k])
           /\ Standalone(cargs[k]).status = "ok")
    => MatchesStandalone

\* C3 (amended): for labels in call form that each name an integration
\* operation whose standalone call returns, compare returns the mapping
\* from the labels (a repeated label once, at its first position), in
\* argument order, to what each operation returns standalone.
C3_CallFormMatchesStandalone ==
    (/\ cmp # NoCmp
     /\ \A k \in 1..Len(cargs) :
           /\ CallForm(cargs[k])
           /\ Standalone(cargs[k]).status = "ok")
    => MatchesStandalone

\* compare returned for two different labels in call form, the first with
\* a literal coefficient
C3_Witness ==
    /\ cmp.returned
    /\ Len(cargs) >= 2
    /\ \A k \in 1..Len(cargs) : CallForm(cargs[k])
    /\ cargs[1] = <<"runge2nd", "(", "3/4", ")">>
    /\ cargs[2] = <<"euler", "(", ")">>
    /\ Len(cmp.results[1][2].Y) >= 2

\* the first label of the arguments whose name the object does not expose
Unrecognized(label) == \A n \in Dir : split0(label) # <<n>>
FirstUnrecognized ==
    CHOOSE k \in 1..Len(cargs) :
        /\ Unrecognized(cargs[k])
        /\ \A j \in 1..(k - 1) : ~Unrecognized(cargs[j])

\* C4: if any label has an unrecognized method name, compare fails with an
\* error naming that label (the first such) before any integration
\* operation is invoked and before anything is sent to plt, wherever the
\* label stands; no mapping is returned.
C4_UnknownMethodFailsFirst ==
    (cmp # NoCmp /\ \E k \in 1..Len(cargs) : Unrecognized(cargs[k])) =>
        /\ cmp.status = "Exception"
        /\ cmp.label = cargs[FirstUnrecognized]
        /\ cmp.invoked = <<>>
        /\ plotted = <<>>
        /\ ~shown
        /\ ~cmp.returned
        /\ cmp.results = <<>>

\* compare failed on an unknown name that stands after a valid call
C4_Witness ==
    /\ cmp.status = "Exception"
    /\ Len(cargs) >= 2
    /\ CallForm(cargs[1])
    /\ Standalone(cargs[1]).status = "ok"
    /\ Unrecognized(cargs[Len(cargs)])

\* C10 (as claimed): a label whose name is not one of the six integration
\* operations (a field, the constructor, any other attribute) is rejected
\* with the error that names it.
C10_OnlyOperationsPassValidation ==
    (cmp # NoCmp /\ \E k \in 1..Len(cargs) : \A n \in Operations : split0(cargs[k]) # <<n>>)
    => /\ cmp.status = "Exception"
       /\ \A n \in Operations : split0(cmp.label) # <<n>>
====
